---- MODULE Spec2Model ----
(***************************************************************************)
(* Model of the monkeyhub Wordle backend (convex/wordle.ts) : the feedback *)
(* evaluator, the puzzle table, the game state table and the checkGuess    *)
(* action, one step per transaction (runQuery / fetch / runMutation).      *)
(***************************************************************************)
EXTENDS Integers, Sequences, FiniteSets, TLC

\* ------------------------------------------------------------------ bounds
\* the model stops starting calls after MaxSubmits successful submits
MaxSubmits == 7

\* the same for the specification with calls in flight together
MaxConcSubmits == 2

\* the same for the specification of the page
MaxClientSubmits == 3

\* the longest guess history the keyboard status is computed for
MaxHistory == 2

\* ------------------------------------------------------------ characters
LowerLetters == <<"a", "b", "c", "g", "h", "i", "l", "n", "t">>
UpperLetters == <<"A", "B", "C", "G", "H", "I", "L", "N", "T">>

\* String.prototype.toLowerCase / toUpperCase on one character
lowerChar(ch) ==
  IF \E k \in 1..Len(UpperLetters) : UpperLetters[k] = ch
    THEN LowerLetters[CHOOSE k \in 1..Len(UpperLetters) : UpperLetters[k] = ch]
    ELSE ch

upperChar(ch) ==
  IF \E k \in 1..Len(LowerLetters) : LowerLetters[k] = ch
    THEN UpperLetters[CHOOSE k \in 1..Len(LowerLetters) : LowerLetters[k] = ch]
    ELSE ch

toLowerCase(w) == [k \in 1..Len(w) |-> lowerChar(w[k])]

toUpperCase(w) == [k \in 1..Len(w) |-> upperChar(w[k])]

\* w[i] of a JavaScript array: undefined outside the array
At(w, i) == IF i \in 1..Len(w) THEN w[i] ELSE "undefined"

\* (solution.match(new RegExp(letter, "g")) || []).length
\* a letter matches itself; the pattern "." matches every character
regexMatchCount(solution, letter) ==
  IF letter = "."
    THEN Len(solution)
    ELSE Cardinality({k \in 1..Len(solution) : solution[k] = letter})

\* solution.includes(letter)
includes(solution, letter) == \E k \in 1..Len(solution) : solution[k] = letter

\* ------------------------------------------------- the feedback evaluator
\* the first pass with the loop stopping one position early
firstPassShort(guessLetters, solutionLetters) ==
  [i \in 1..5 |-> IF i < 5 /\ At(guessLetters, i) = At(solutionLetters, i)
                    THEN "correct" ELSE "unset"]

\* first pass: mark correct positions; the others stay unset
firstPass(guessLetters, solutionLetters) ==
  [i \in 1..5 |-> IF At(guessLetters, i) = At(solutionLetters, i)
                    THEN "correct" ELSE "unset"]

correctCount(guessLetters, solutionLetters, letter) ==
  Cardinality({idx \in 1..Len(solutionLetters) :
                 solutionLetters[idx] = letter /\ At(guessLetters, idx) = letter})

\* slice(0, i - 1): the position just before i is not counted
alreadyMarkedPresentShort(guessLetters, feedback, letter, i) ==
  Cardinality({idx \in 1..(i - 2) :
                 guessLetters[idx] = letter /\ feedback[idx] = "present"})

alreadyMarkedPresent(guessLetters, feedback, letter, i) ==
  Cardinality({idx \in 1..(i - 1) :
                 guessLetters[idx] = letter /\ feedback[idx] = "present"})

\* the second pass without the counts: present whenever the letter occurs
markPositionIncludesOnly(guessLetters, solutionLetters, feedback, i) ==
  LET letter == At(guessLetters, i)
  IN IF includes(solutionLetters, letter) THEN "present" ELSE "absent"

markPosition(guessLetters, solutionLetters, feedback, i) ==
  LET letter == At(guessLetters, i)
  IN IF includes(solutionLetters, letter)
        /\ correctCount(guessLetters, solutionLetters, letter)
             + alreadyMarkedPresent(guessLetters, feedback, letter, i)
           < regexMatchCount(solutionLetters, letter)
       THEN "present"
       ELSE "absent"

\* second pass: positions i..5 from left to right
RECURSIVE secondPass(_, _, _, _)
secondPass(guessLetters, solutionLetters, feedback, i) ==
  IF i > 5 THEN feedback
  ELSE IF feedback[i] = "correct"
    THEN secondPass(guessLetters, solutionLetters, feedback, i + 1)
    ELSE secondPass(guessLetters, solutionLetters,
           [feedback EXCEPT ![i] =
              markPosition(guessLetters, solutionLetters, feedback, i)],
           i + 1)

calculateFeedback(guess, solution) ==
  secondPass(guess, solution, firstPass(guess, solution), 1)

\* ------------------------------------------------------------- the tables
\* the requests' identities (identity.subject, the Clerk id); NoIdentity is
\* an unauthenticated request
NoIdentity == "none"

Subjects == {"clerk_1", "clerk_2", "clerk_3"}

\* the users table: _id is the document id, externalId the Clerk id;
\* clerk_3 has no users document
UsersTable ==
  << [_id |-> "users_1", externalId |-> "clerk_1"],
     [_id |-> "users_2", externalId |-> "clerk_2"] >>

Dates == {"2025-01-01"}

\* the answer of the puzzle source for a date (data.solution)
nytSolution(date) == <<"a", "b", "b", "c", "a">>

\* .first() of a query: no document or the first one
first(rows) == IF rows = <<>> THEN <<>> ELSE <<rows[1]>>

getPuzzleFromDb(tbl, date) ==
  first(SelectSeq(tbl, LAMBDA p : p.date = date))

\* the insert without the look for an existing puzzle
storePuzzleUnchecked(tbl, date, solution) ==
  Append(tbl, [date |-> date, solution |-> solution])

storePuzzle(tbl, date, solution) ==
  IF getPuzzleFromDb(tbl, date) # <<>>
    THEN tbl
    ELSE Append(tbl, [date |-> date, solution |-> solution])

getGameStateInternal(tbl, userId, date) ==
  first(SelectSeq(tbl, LAMBDA g : g.userId = userId /\ g.date = date))

\* users.ts: the users document whose externalId is identity.subject
getCurrentUser(identity) ==
  first(SelectSeq(UsersTable, LAMBDA u : u.externalId = identity))

\* the key of the game state that saveGameStateInternal writes
saveKey(user) == user._id

\* the save with the user looked up after the write: a request without a
\* users document leaves a game state behind and then fails
saveGameStateInternalLate(tbl, identity, date, guesses, isGameOver) ==
  LET user == getCurrentUser(identity)
      key == IF user = <<>> THEN identity ELSE saveKey(user[1])
      rows == {k \in 1..Len(tbl) : tbl[k].userId = key /\ tbl[k].date = date}
      idx == CHOOSE k \in rows : \A j \in rows : k <= j
  IN [threw |-> user = <<>>,
      table |-> IF rows # {}
                  THEN [tbl EXCEPT ![idx] =
                          [@ EXCEPT !.guesses = guesses,
                                    !.isGameOver = isGameOver]]
                  ELSE Append(tbl, [userId |-> key, date |-> date,
                                    guesses |-> guesses,
                                    isGameOver |-> isGameOver])]

\* the mutation is one transaction: when getCurrentUserOrThrow throws,
\* nothing is written
saveGameStateInternal(tbl, identity, date, guesses, isGameOver) ==
  LET user == getCurrentUser(identity)
  IN IF user = <<>>
       THEN [threw |-> TRUE, table |-> tbl]
       ELSE
         LET key == saveKey(user[1])
             existing == getGameStateInternal(tbl, key, date)
             idx == CHOOSE k \in 1..Len(tbl) :
                      /\ tbl[k].userId = key /\ tbl[k].date = date
                      /\ \A j \in 1..(k - 1) :
                           ~(tbl[j].userId = key /\ tbl[j].date = date)
         IN IF existing # <<>>
              THEN [threw |-> FALSE,
                    table |-> [tbl EXCEPT ![idx] =
                                 [@ EXCEPT !.guesses = guesses,
                                           !.isGameOver = isGameOver]]]
              ELSE [threw |-> FALSE,
                    table |-> Append(tbl,
                                [userId |-> key, date |-> date,
                                 guesses |-> guesses,
                                 isGameOver |-> isGameOver])]

\* the game state document of the current user, as getGameState reads it
currentUserGameState(tbl, identity, date) ==
  LET user == getCurrentUser(identity)
  IN IF user = <<>> THEN <<>>
     ELSE getGameStateInternal(tbl, user[1]._id, date)

\* ------------------------------------------------------------------ state
VARIABLES
  wordles,            \* table wordles: sequence of [date, solution]
  wordleGameStates,   \* table wordleGameStates
  calls,              \* the checkGuess calls: position and locals
  okCount,            \* history: successful submits per (subject, date)
  won,                \* history: a successful submit returned isCorrect
  fetchFailed,        \* history: the dates for which a fetch has failed
  evalGuess,          \* evaluator inputs and output (specification SpecEval)
  evalSolution,
  evalFeedback,
  todayDate,          \* the state of WordlePage (useState)
  guesses,
  currentGuess,
  isGameOver,
  isLoading,
  error,
  savedGameState,     \* the last result of useQuery(getGameState)
  keyLetter,          \* isLetterAbsent: its argument and,
  keyResult           \* once computed, its result

vars == <<wordles, wordleGameStates, calls, okCount, won, fetchFailed,
          evalGuess, evalSolution, evalFeedback,
          todayDate, guesses, currentGuess, isGameOver, isLoading, error,
          savedGameState, keyLetter, keyResult>>

serverVars == <<wordles, wordleGameStates, calls, okCount, won, fetchFailed>>

clientVars == <<todayDate, guesses, currentGuess, isGameOver, isLoading,
                error, savedGameState>>

keyVars == <<keyLetter, keyResult>>

evalVars == <<evalGuess, evalSolution, evalFeedback>>

\* what the steps of checkGuess leave alone
otherVars == <<evalVars, clientVars, keyVars>>

\* the slots of the checkGuess calls that can be in flight together
CallIds == {1, 2}

\* the sequential specification makes one call after the other
SeqCalls == {1}

\* the raw guesses a caller sends: the solution in two casings, a wrong
\* word, a word of the wrong length
GuessInputs ==
  { <<"A", "B", "B", "C", "A">>,
    <<"a", "B", "b", "c", "A">>,
    <<"B", "A", "C", "C", "B">>,
    <<"A", "B", "C">> }

idleCall ==
  [pc |-> "idle", identity |-> NoIdentity, date |-> "", guess |-> <<>>,
   puzzleData |-> <<>>, solution |-> <<>>, guesses |-> <<>>,
   feedback |-> <<>>, isCorrect |-> FALSE, isGameOver |-> FALSE,
   error |-> "", before |-> <<>>, puzzlesBefore |-> <<>>,
   stateRead |-> <<>>]

throw(call, msg) == [call EXCEPT !.pc = "thrown", !.error = msg]

\* lines 181-186: normalise both words, reject a guess that is not 5 long
lengthCheck(call, puzzleSolution) ==
  IF Len(toLowerCase(call.guess)) # 5
    THEN throw(call, "Guess must be 5 letters")
    ELSE [call EXCEPT !.pc = "getGameState",
                      !.solution = toLowerCase(puzzleSolution)]

\* the evaluation with isCorrect taken from the guess as sent, not normalised
\* the evaluation with the game ending at six guesses only
evaluateNeverWon(call, currentState) ==
  IF currentState # <<>> /\ Len(currentState[1].guesses) >= 6
    THEN throw(call, "Maximum guesses reached")
  ELSE IF currentState # <<>> /\ currentState[1].isGameOver
    THEN throw(call, "Game is already over")
  ELSE
    LET guess == toLowerCase(call.guess)
        feedback == calculateFeedback(guess, call.solution)
        isCorrect == guess = call.solution
        existingGuesses == IF currentState # <<>>
                             THEN currentState[1].guesses ELSE <<>>
        newGuess == [word |-> toUpperCase(guess), feedback |-> feedback]
        updatedGuesses == Append(existingGuesses, newGuess)
    IN [call EXCEPT !.pc = "save",
                    !.guesses = updatedGuesses,
                    !.feedback = feedback,
                    !.isCorrect = isCorrect,
                    !.isGameOver = Len(updatedGuesses) >= 6]

evaluateRaw(call, currentState) ==
  IF currentState # <<>> /\ Len(currentState[1].guesses) >= 6
    THEN throw(call, "Maximum guesses reached")
  ELSE IF currentState # <<>> /\ currentState[1].isGameOver
    THEN throw(call, "Game is already over")
  ELSE
    LET guess == toLowerCase(call.guess)
        feedback == calculateFeedback(guess, call.solution)
        isCorrect == call.guess = call.solution
        existingGuesses == IF currentState # <<>>
                             THEN currentState[1].guesses ELSE <<>>
        newGuess == [word |-> toUpperCase(guess), feedback |-> feedback]
        updatedGuesses == Append(existingGuesses, newGuess)
    IN [call EXCEPT !.pc = "save",
                    !.guesses = updatedGuesses,
                    !.feedback = feedback,
                    !.isCorrect = isCorrect,
                    !.isGameOver = isCorrect \/ Len(updatedGuesses) >= 6]

\* lines 197-256: validate against the state read, evaluate, append
evaluate(call, currentState) ==
  IF currentState # <<>> /\ Len(currentState[1].guesses) >= 6
    THEN throw(call, "Maximum guesses reached")
  ELSE IF currentState # <<>> /\ currentState[1].isGameOver
    THEN throw(call, "Game is already over")
  ELSE
    LET guess == toLowerCase(call.guess)
        feedback == calculateFeedback(guess, call.solution)
        isCorrect == guess = call.solution
        existingGuesses == IF currentState # <<>>
                             THEN currentState[1].guesses ELSE <<>>
        newGuess == [word |-> toUpperCase(guess), feedback |-> feedback]
        updatedGuesses == Append(existingGuesses, newGuess)
    IN [call EXCEPT !.pc = "save",
                    !.guesses = updatedGuesses,
                    !.feedback = feedback,
                    !.isCorrect = isCorrect,
                    !.isGameOver = isCorrect \/ Len(updatedGuesses) >= 6]

\* the user key checkGuess reads the game state with
readKey(identity) == identity

\* the tables are empty and no call has been made
InitServer ==
  /\ wordles = <<>>
  /\ wordleGameStates = <<>>
  /\ calls = [c \in CallIds |-> idleCall]
  /\ okCount = [k \in Subjects \X Dates |-> 0]
  /\ won = [k \in Subjects \X Dates |-> FALSE]
  /\ fetchFailed = {}

InitEvalIdle ==
  /\ evalGuess = <<>>
  /\ evalSolution = <<>>
  /\ evalFeedback = <<>>

\* part_000 lines 15-28: the page after its first render
InitPageIdle ==
  /\ todayDate = ""
  /\ currentGuess = <<>>
  /\ isGameOver = FALSE
  /\ isLoading = FALSE
  /\ error = "null"
  /\ savedGameState = [kind |-> "undefined", guesses |-> <<>>,
                       isGameOver |-> FALSE]

InitClient ==
  /\ guesses = <<>>
  /\ InitPageIdle

InitKeysIdle ==
  /\ keyLetter = ""
  /\ keyResult = <<>>

Init ==
  /\ InitServer
  /\ InitEvalIdle
  /\ InitClient
  /\ InitKeysIdle

inFlight(c) == calls[c].pc \notin {"idle", "returned", "thrown"}

RECURSIVE sumOver(_, _)
sumOver(f, keys) ==
  IF keys = {} THEN 0
  ELSE LET k == CHOOSE x \in keys : TRUE
       IN f[k] + sumOver(f, keys \ {k})

totalSubmits == sumOver(okCount, Subjects \X Dates)

\* the handler with the length check made first, before the puzzle is
\* resolved
enterHandlerLengthFirst(c, identity, date, guess) ==
  /\ ~inFlight(c)
  /\ calls' = [calls EXCEPT ![c] =
       LET call == [idleCall EXCEPT !.identity = identity, !.date = date,
                                    !.guess = guess,
                                    !.before = wordleGameStates,
                                    !.puzzlesBefore = wordles]
       IN IF identity = NoIdentity
            THEN throw(call, "Not authenticated")
          ELSE IF Len(toLowerCase(guess)) # 5
            THEN throw(call, "Guess must be 5 letters")
            ELSE [call EXCEPT !.pc = "getPuzzleFromDb"]]
  /\ UNCHANGED <<wordles, wordleGameStates, okCount, won, fetchFailed>>

\* lines 132-143: the handler is entered with its arguments and checks the
\* identity
enterHandler(c, identity, date, guess) ==
  /\ ~inFlight(c)
  /\ calls' = [calls EXCEPT ![c] =
       LET call == [idleCall EXCEPT !.identity = identity, !.date = date,
                                    !.guess = guess,
                                    !.before = wordleGameStates,
                                    !.puzzlesBefore = wordles]
       IN IF identity = NoIdentity
            THEN throw(call, "Not authenticated")
            ELSE [call EXCEPT !.pc = "getPuzzleFromDb"]]
  /\ UNCHANGED <<wordles, wordleGameStates, okCount, won, fetchFailed>>

\* a caller invokes checkGuess while no other call is in flight
checkGuessStart(c, identity, date, guess) ==
  /\ \A d \in CallIds : ~inFlight(d)
  /\ totalSubmits < MaxSubmits
  /\ enterHandler(c, identity, date, guess)
  /\ UNCHANGED otherVars

\* lines 145-151, and 181-186 when the puzzle is stored
checkGuessGetPuzzle(c) ==
  /\ calls[c].pc = "getPuzzleFromDb"
  /\ LET puzzle == getPuzzleFromDb(wordles, calls[c].date)
     IN calls' = [calls EXCEPT ![c] =
          IF puzzle = <<>>
            THEN [@ EXCEPT !.pc = "fetch"]
            ELSE lengthCheck(@, puzzle[1].solution)]
  /\ UNCHANGED <<wordles, wordleGameStates, okCount, won, fetchFailed, otherVars>>

\* the fetch that stores an empty puzzle when the response is not ok
fetchPuzzleCaching(c, ok, answers) ==
  /\ calls[c].pc = "fetch"
  /\ IF ~ok
       THEN /\ calls' = [calls EXCEPT ![c] = throw(@, "Failed to fetch puzzle")]
            /\ fetchFailed' = fetchFailed \cup {calls[c].date}
            /\ wordles' = Append(wordles, [date |-> calls[c].date,
                                           solution |-> <<>>])
       ELSE /\ \E answer \in answers :
                 calls' = [calls EXCEPT ![c].pc = "storePuzzle",
                                        ![c].puzzleData = answer]
            /\ UNCHANGED <<wordles, fetchFailed>>
  /\ UNCHANGED <<wordleGameStates, okCount, won, otherVars>>

\* lines 152-164 with the response being ok or not and its solution being
\* one of answers
fetchPuzzle(c, ok, answers) ==
  /\ calls[c].pc = "fetch"
  /\ IF ~ok
       THEN /\ calls' = [calls EXCEPT ![c] = throw(@, "Failed to fetch puzzle")]
            /\ fetchFailed' = fetchFailed \cup {calls[c].date}
            /\ UNCHANGED wordles
       ELSE /\ \E answer \in answers :
                 calls' = [calls EXCEPT ![c].pc = "storePuzzle",
                                        ![c].puzzleData = answer]
            /\ UNCHANGED <<wordles, fetchFailed>>
  /\ UNCHANGED <<wordleGameStates, okCount, won, otherVars>>

\* lines 152-164: the puzzle source answers, or does not
checkGuessFetch(c) ==
  \E ok \in BOOLEAN : fetchPuzzle(c, ok, {nytSolution(calls[c].date)})

\* lines 166-186
checkGuessStorePuzzle(c) ==
  /\ calls[c].pc = "storePuzzle"
  /\ wordles' = storePuzzle(wordles, calls[c].date, calls[c].puzzleData)
  /\ calls' = [calls EXCEPT ![c] = lengthCheck(@, @.puzzleData)]
  /\ UNCHANGED <<wordleGameStates, okCount, won, fetchFailed, otherVars>>

\* lines 188-256
checkGuessGetGameState(c) ==
  /\ calls[c].pc = "getGameState"
  /\ calls' = [calls EXCEPT ![c] =
       [evaluate(@, getGameStateInternal(wordleGameStates,
                                         readKey(@.identity), @.date))
          EXCEPT !.stateRead = wordleGameStates]]
  /\ UNCHANGED <<wordles, wordleGameStates, okCount, won, fetchFailed, otherVars>>

\* lines 258-270
checkGuessSave(c) ==
  /\ calls[c].pc = "save"
  /\ LET call == calls[c]
         saved == saveGameStateInternal(wordleGameStates, call.identity,
                    call.date, call.guesses, call.isGameOver)
         key == <<call.identity, call.date>>
     IN /\ wordleGameStates' = saved.table
        /\ IF saved.threw
          THEN /\ calls' = [calls EXCEPT ![c] =
                              throw(@, "Can't get current user")]
               /\ UNCHANGED <<okCount, won>>
          ELSE /\ calls' = [calls EXCEPT ![c].pc = "returned"]
               /\ okCount' = [okCount EXCEPT ![key] = @ + 1]
               /\ won' = [won EXCEPT ![key] = @ \/ call.isCorrect]
  /\ UNCHANGED <<wordles, fetchFailed, otherVars>>

Next ==
  \E c \in SeqCalls :
    \/ \E identity \in Subjects \cup {NoIdentity}, date \in Dates,
          guess \in GuessInputs : checkGuessStart(c, identity, date, guess)
    \/ checkGuessGetPuzzle(c)
    \/ checkGuessFetch(c)
    \/ checkGuessStorePuzzle(c)
    \/ checkGuessGetGameState(c)
    \/ checkGuessSave(c)

Spec == Init /\ [][Next]_vars

\* ------------------------------------------- the evaluator on its own
\* every 5-letter word over a, b, c, and the words of the documented example
EvalWords == [1..5 -> {"a", "b", "c"}]

EvalGuesses ==
  EvalWords \cup { <<"N", "I", "G", "H", "T">>, <<"L", "I", "G", "H", "T">>,
                   <<"A", "b", "B", "a", "C">> }

EvalSolutions == EvalWords \cup { <<"l", "i", "g", "h", "t">> }

InitEval ==
  /\ InitServer
  /\ InitClient
  /\ InitKeysIdle
  /\ evalGuess \in EvalGuesses
  /\ evalSolution \in EvalSolutions
  /\ evalFeedback = <<>>

\* lines 181-182 and 207-247 applied to the inputs
Evaluate ==
  /\ evalFeedback = <<>>
  /\ evalFeedback' = calculateFeedback(toLowerCase(evalGuess),
                                       toLowerCase(evalSolution))
  /\ UNCHANGED <<serverVars, clientVars, keyVars, evalGuess, evalSolution>>

NextEval == Evaluate

SpecEval == InitEval /\ [][NextEval]_vars

evalG == toLowerCase(evalGuess)

evalS == toLowerCase(evalSolution)

\* C7: the evaluator returns exactly 5 feedback values, each one of
\* correct / present / absent, and position i is correct exactly when
\* G[i] = S[i]; S=LIGHT, G=NIGHT gives absent, correct, correct, correct,
\* correct.
C7_FiveValuesCorrectIffMatch ==
  evalFeedback # <<>> =>
    /\ Len(evalFeedback) = 5
    /\ \A i \in 1..5 :
         /\ evalFeedback[i] \in {"correct", "present", "absent"}
         /\ evalFeedback[i] = "correct" <=> evalG[i] = evalS[i]
    /\ Cardinality({i \in 1..5 : evalFeedback[i] = "correct"})
         = Cardinality({i \in 1..5 : evalG[i] = evalS[i]})
    /\ (evalG = <<"n", "i", "g", "h", "t">> /\ evalS = <<"l", "i", "g", "h", "t">>)
         => evalFeedback = <<"absent", "correct", "correct", "correct", "correct">>

C7_Witness ==
  /\ evalGuess = <<"N", "I", "G", "H", "T">>
  /\ evalSolution = <<"l", "i", "g", "h", "t">>
  /\ evalFeedback = <<"absent", "correct", "correct", "correct", "correct">>

occurrences(w, letter) == Cardinality({k \in 1..Len(w) : w[k] = letter})

\* the case of the duplicate-letter rule: the solution has one L, the guess
\* has L at p < q, neither of them correct
duplicateCase(letter, p, q) ==
  /\ p < q
  /\ occurrences(evalS, letter) = 1
  /\ evalG[p] = letter /\ evalG[q] = letter
  /\ evalFeedback[p] # "correct" /\ evalFeedback[q] # "correct"

\* C8: when the solution has exactly one L and the guess has L at p < q,
\* neither correct, at most one of p, q is present, and if exactly one is
\* present it is p.
C8_DuplicateLetterRule ==
  evalFeedback # <<>> =>
    \A letter \in {"a", "b", "c"}, p \in 1..5, q \in 1..5 :
      duplicateCase(letter, p, q) =>
        /\ ~(evalFeedback[p] = "present" /\ evalFeedback[q] = "present")
        /\ evalFeedback[q] = "present" => evalFeedback[p] = "present"

C8_Witness ==
  /\ evalFeedback # <<>>
  /\ \E letter \in {"a", "b", "c"}, p \in 1..5, q \in 1..5 :
       /\ duplicateCase(letter, p, q)
       /\ evalFeedback[p] = "present"
       /\ evalFeedback[q] = "absent"

\* ------------------------------------------------ the submit contract
\* the stored game state of a (user, date), as getGameState reads it
storedGuesses(tbl, identity, date) ==
  LET g == currentUserGameState(tbl, identity, date)
  IN IF g = <<>> THEN <<>> ELSE g[1].guesses

storedIsGameOver(tbl, identity, date) ==
  LET g == currentUserGameState(tbl, identity, date)
  IN IF g = <<>> THEN FALSE ELSE g[1].isGameOver

finished(c) == calls[c].pc \in {"returned", "thrown"}

callKey(c) == <<calls[c].identity, calls[c].date>>

\* the successful submits of the call's (user, date) before the call
priorSubmits(c) ==
  IF calls[c].pc = "returned" THEN okCount[callKey(c)] - 1
                              ELSE okCount[callKey(c)]

saveReturns(c) == calls[c].pc = "save" /\ calls'[c].pc = "returned"

\* C1: over every step the stored guesses of a (user, date) do not get
\* shorter and the stored isGameOver does not go from true to false.
C1_Monotonic ==
  [][\A identity \in Subjects, date \in Dates :
       /\ Len(storedGuesses(wordleGameStates', identity, date))
            >= Len(storedGuesses(wordleGameStates, identity, date))
       /\ storedIsGameOver(wordleGameStates, identity, date)
            => storedIsGameOver(wordleGameStates', identity, date)]_vars

\* C2: a successful submit stores the prior stored sequence with the new
\* Guess (uppercased word, computed feedback) appended, so after k
\* successful submits (k <= 6) the stored sequence has k entries.
C2_AppendInOrder ==
  [][\A c \in CallIds :
       saveReturns(c) =>
         LET identity == calls[c].identity
             date == calls[c].date
             newGuess == [word |-> toUpperCase(toLowerCase(calls[c].guess)),
                          feedback |-> calls[c].feedback]
         IN /\ storedGuesses(wordleGameStates', identity, date)
                 = Append(storedGuesses(wordleGameStates, identity, date),
                          newGuess)
            /\ okCount'[<<identity, date>>] <= 6
                 => Len(storedGuesses(wordleGameStates', identity, date))
                      = okCount'[<<identity, date>>]]_vars

\* C3: the stored guesses never exceed 6, and once the stored isGameOver
\* is true no step changes the stored guesses.
C3_SixAndTerminal ==
  [][\A identity \in Subjects, date \in Dates :
       /\ Len(storedGuesses(wordleGameStates', identity, date)) <= 6
       /\ storedIsGameOver(wordleGameStates, identity, date)
            => storedGuesses(wordleGameStates', identity, date)
                 = storedGuesses(wordleGameStates, identity, date)]_vars

C5_GameOverRejected ==
  \A c \in CallIds :
    (finished(c) /\ calls[c].identity # NoIdentity
       /\ Len(calls[c].guess) = 5
       /\ storedIsGameOver(calls[c].before, calls[c].identity, calls[c].date))
    => /\ calls[c].pc = "thrown"
       /\ calls[c].error = "Game is already over"
       /\ wordleGameStates = calls[c].before

\* C6: when six submits of a (user, date) succeed and none is correct, the
\* sixth returns isGameOver = true with isCorrect = false and the stored
\* state holds 6 guesses with isGameOver = true; the first five return
\* isGameOver = false.
C6_LossAtSix ==
  \A c \in CallIds :
    (calls[c].pc = "returned" /\ ~won[callKey(c)])
    => /\ okCount[callKey(c)] < 6 => ~calls[c].isGameOver
       /\ okCount[callKey(c)] = 6 =>
            /\ calls[c].isGameOver
            /\ ~calls[c].isCorrect
            /\ Len(storedGuesses(wordleGameStates, calls[c].identity,
                                 calls[c].date)) = 6
            /\ storedIsGameOver(wordleGameStates, calls[c].identity,
                                calls[c].date)

\* the call was made with no stored game state of its (user, date) and its
\* guess equals the solution, whatever the case of the letters
firstGuessIsSolution(c) ==
  /\ calls[c].pc = "returned"
  /\ currentUserGameState(calls[c].before, calls[c].identity, calls[c].date) = <<>>
  /\ toLowerCase(calls[c].guess) = toLowerCase(nytSolution(calls[c].date))

\* C9: for a (user, date) with no stored game state, a submit whose guess
\* equals the solution case-insensitively returns five correct, isCorrect
\* and isGameOver, and stores exactly that one guess with isGameOver.
C9_WinOnFirstGuess ==
  \A c \in CallIds :
    firstGuessIsSolution(c) =>
      /\ calls[c].feedback
           = <<"correct", "correct", "correct", "correct", "correct">>
      /\ calls[c].isCorrect
      /\ calls[c].isGameOver
      /\ currentUserGameState(wordleGameStates, calls[c].identity, calls[c].date)
           = << [userId |-> getCurrentUser(calls[c].identity)[1]._id,
                 date |-> calls[c].date,
                 guesses |-> << [word |-> toUpperCase(calls[c].guess),
                                 feedback |-> calls[c].feedback] >>,
                 isGameOver |-> TRUE] >>

C9_Witness ==
  \E c \in CallIds :
    /\ firstGuessIsSolution(c)
    /\ calls[c].guess = <<"a", "B", "b", "c", "A">>
    /\ Len(wordleGameStates) = 2

\* C10: a submit that ends in an error leaves the stored game states as
\* they were before the call, and the game states are written only by the
\* save that follows the checks and the evaluation.
C10_ErrorLeavesStateUnchanged ==
  [][/\ \A c \in CallIds :
          calls'[c].pc = "thrown" => wordleGameStates' = calls'[c].before
     /\ wordleGameStates' # wordleGameStates =>
          \E c \in CallIds : saveReturns(c) /\ Len(calls[c].feedback) = 5]_vars

C10_Witness ==
  \E c \in CallIds :
    /\ calls[c].pc = "thrown"
    /\ calls[c].error = "Can't get current user"
    /\ wordleGameStates # <<>>

\* --------------------------------------------- calls in flight together
ConcSubjects == {"clerk_1", "clerk_2"}

ConcGuesses == { <<"A", "B", "B", "C", "A">>, <<"B", "A", "C", "C", "B">> }

\* what the puzzle source may answer to requests that race: the solution,
\* or another word
racingAnswers(date) == {nytSolution(date), <<"b", "a", "c", "c", "b">>}

\* a caller invokes checkGuess, whatever else is in flight
checkGuessStartConc(c, identity, date, guess) ==
  /\ totalSubmits < MaxConcSubmits
  /\ enterHandler(c, identity, date, guess)
  /\ UNCHANGED otherVars

checkGuessFetchConc(c) ==
  \E ok \in BOOLEAN : fetchPuzzle(c, ok, racingAnswers(calls[c].date))

NextConc ==
  \E c \in CallIds :
    \/ \E identity \in ConcSubjects, date \in Dates, guess \in ConcGuesses :
         checkGuessStartConc(c, identity, date, guess)
    \/ checkGuessGetPuzzle(c)
    \/ checkGuessFetchConc(c)
    \/ checkGuessStorePuzzle(c)
    \/ checkGuessGetGameState(c)
    \/ checkGuessSave(c)

SpecConc == Init /\ [][NextConc]_vars

puzzlesOf(tbl, date) == {k \in 1..Len(tbl) : tbl[k].date = date}

\* C11: whatever the interleaving of the submits that fetch the puzzle of
\* one date, the table holds at most one puzzle for the date, a stored
\* puzzle is never changed, and a storePuzzle that finds the puzzle stored
\* changes nothing and does not fail.
C11_PuzzleStoredOnce ==
  [][/\ \A date \in Dates : Cardinality(puzzlesOf(wordles', date)) <= 1
     /\ \A k \in 1..Len(wordles) :
          Len(wordles') >= k /\ wordles'[k] = wordles[k]
     /\ \A c \in CallIds :
          (calls[c].pc = "storePuzzle" /\ calls'[c].pc # "storePuzzle"
             /\ puzzlesOf(wordles, calls[c].date) # {})
          => /\ wordles' = wordles
             /\ calls'[c].pc = "getGameState"]_vars

\* both calls fetched, with different answers, and one puzzle is stored
C11_Witness ==
  /\ \A c \in CallIds : calls[c].pc \in {"getGameState", "save", "returned"}
  /\ calls[1].puzzleData # <<>> /\ calls[2].puzzleData # <<>>
  /\ calls[1].puzzleData # calls[2].puzzleData
  /\ Len(wordles) = 1

\* two submits of one (user, date) returned, and both had read the game
\* states before either wrote them
bothReadBeforeWrite(c, d) ==
  /\ c # d
  /\ calls[c].pc = "returned" /\ calls[d].pc = "returned"
  /\ callKey(c) = callKey(d)
  /\ calls[c].stateRead = calls[d].stateRead
  /\ calls[c].guess # calls[d].guess

storedWords(c) ==
  LET g == storedGuesses(wordleGameStates, calls[c].identity, calls[c].date)
  IN {g[k].word : k \in 1..Len(g)}

\* C14: when two submits of one (user, date) both read the stored state
\* before either writes it, the stored guesses afterwards hold an entry
\* for each of them, so the successful submits of the (user, date) do not
\* exceed its stored guesses, nor 6.
C14_NoLostGuess ==
  \A c \in CallIds, d \in CallIds :
    bothReadBeforeWrite(c, d) =>
      /\ toUpperCase(calls[c].guess) \in storedWords(c)
      /\ toUpperCase(calls[d].guess) \in storedWords(c)
      /\ okCount[callKey(c)]
           <= Len(storedGuesses(wordleGameStates, calls[c].identity,
                                calls[c].date))
      /\ okCount[callKey(c)] <= 6

\* ------------------------------------------------ puzzle resolution
\* C12: when the fetch fails, the submit fails with the fetch error and no
\* puzzle is stored for the date; a later submit for the date fetches
\* again.
C12_FetchFailureNotCached ==
  [][\A c \in CallIds :
       /\ (calls[c].pc = "fetch" /\ calls'[c].pc = "thrown")
          => /\ calls'[c].error = "Failed to fetch puzzle"
             /\ wordles' = calls'[c].puzzlesBefore
             /\ puzzlesOf(wordles', calls[c].date) = {}
       /\ (calls[c].pc = "getPuzzleFromDb" /\ calls'[c].pc # "getPuzzleFromDb"
             /\ calls[c].date \in fetchFailed
             /\ calls[c].puzzlesBefore = <<>>)
          => calls'[c].pc = "fetch"]_vars

\* a submit fetches the puzzle of a date whose fetch failed before
C12_Witness ==
  \E c \in CallIds :
    /\ calls[c].pc = "storePuzzle"
    /\ calls[c].date \in fetchFailed
    /\ wordles = <<>>

wrongLength(c) ==
  /\ calls[c].pc # "idle"
  /\ calls[c].identity # NoIdentity
  /\ Len(calls[c].guess) # 5

\* C13: the length check comes before the puzzle resolution: a guess whose
\* length is not 5 is rejected as invalid input without a fetch and without
\* a puzzle being stored.
C13_LengthCheckedFirst ==
  \A c \in CallIds :
    wrongLength(c) =>
      /\ calls[c].pc \notin {"fetch", "storePuzzle"}
      /\ finished(c) =>
           /\ calls[c].pc = "thrown"
           /\ calls[c].error = "Guess must be 5 letters"
           /\ wordles = calls[c].puzzlesBefore

\* C13 as the code has it: a submit checks the identity, then resolves the
\* puzzle, then checks the length.  A guess whose length is not 5 ends in
\* the invalid-input error with the puzzle of the date stored, or in the
\* fetch error with no puzzle stored; no game state is read or written.
C13_LengthCheckedAfterPuzzle ==
  \A c \in CallIds :
    /\ (finished(c) /\ calls[c].identity = NoIdentity)
       => /\ calls[c].error = "Not authenticated"
          /\ wordles = calls[c].puzzlesBefore
    /\ wrongLength(c) =>
         /\ calls[c].pc \in {"getPuzzleFromDb", "fetch", "storePuzzle", "thrown"}
         /\ calls[c].stateRead = <<>> /\ calls[c].feedback = <<>>
         /\ wordleGameStates = calls[c].before
         /\ calls[c].pc = "thrown" =>
              \/ /\ calls[c].error = "Guess must be 5 letters"
                 /\ puzzlesOf(wordles, calls[c].date) # {}
              \/ /\ calls[c].error = "Failed to fetch puzzle"
                 /\ wordles = calls[c].puzzlesBefore

\* a guess of the wrong length made the submit fetch and store the puzzle
C13_Witness ==
  \E c \in CallIds :
    /\ wrongLength(c)
    /\ calls[c].error = "Guess must be 5 letters"
    /\ calls[c].puzzlesBefore = <<>>
    /\ Len(wordles) = 1

\* ------------------------------------------------ the game state store
gameStatesOf(tbl, userId, date) ==
  {k \in 1..Len(tbl) : tbl[k].userId = userId /\ tbl[k].date = date}

\* C19: the read of the game state in a submit returns the record that
\* the save of the same user and date wrote (the same user key), and there
\* is at most one record per (user, date).
C19_ReadYourWrite ==
  /\ \A c \in CallIds :
       calls[c].pc = "getGameState" =>
         getGameStateInternal(wordleGameStates, readKey(calls[c].identity),
                              calls[c].date)
           = currentUserGameState(wordleGameStates, calls[c].identity,
                                  calls[c].date)
  /\ \A k \in 1..Len(wordleGameStates) :
       Cardinality(gameStatesOf(wordleGameStates,
                                wordleGameStates[k].userId,
                                wordleGameStates[k].date)) = 1

\* ------------------------------------------------------------ the page
\* the signed-in user of the page and the call slot its action runs in
ClientUser == "clerk_1"

clientCall == 1

\* the words the user types
ClientWords == { <<"A", "B", "B", "C", "A">>, <<"B", "A", "C", "C", "B">> }

\* the keys the keydown listener passes on (part_000 lines 112-118)
Keys == {"Enter", "Backspace", "a", "b", "c"}

isPrefix(p, w) == Len(p) <= Len(w) /\ \A k \in 1..Len(p) : p[k] = w[k]

\* s.slice(0, -1)
dropLast(s) == IF s = <<>> THEN <<>> ELSE SubSeq(s, 1, Len(s) - 1)

\* part_001 lines 293-327: the result useQuery delivers
getGameState(states, puzzles, identity, date) ==
  LET gameState == currentUserGameState(states, identity, date)
      puzzle == getPuzzleFromDb(puzzles, date)
  IN IF gameState = <<>>
       THEN IF puzzle # <<>>
              THEN [kind |-> "state", guesses |-> <<>>, isGameOver |-> FALSE]
              ELSE [kind |-> "null", guesses |-> <<>>, isGameOver |-> FALSE]
       ELSE [kind |-> "state", guesses |-> gameState[1].guesses,
             isGameOver |-> gameState[1].isGameOver]

\* part_000 lines 36-42
setTodayDate ==
  /\ todayDate = ""
  /\ \E date \in Dates : todayDate' = date
  /\ UNCHANGED <<guesses, currentGuess, isGameOver, isLoading, error,
                 savedGameState, serverVars, evalVars, keyVars>>

loadGameStateRestoring(result) ==
  /\ savedGameState' = result
  /\ IF result.kind \notin {"undefined", "null"}
       THEN /\ guesses' = result.guesses
            /\ isGameOver' = result.isGameOver
            /\ currentGuess' = <<>>
       ELSE UNCHANGED <<guesses, isGameOver, currentGuess>>

\* part_000 lines 44-51: the effect run when useQuery has a new result
loadGameState(result) ==
  /\ savedGameState' = result
  /\ IF result.kind \notin {"undefined", "null"}
       THEN /\ guesses' = result.guesses
            /\ isGameOver' = result.isGameOver
       ELSE UNCHANGED <<guesses, isGameOver>>
  /\ UNCHANGED currentGuess

\* part_000 lines 25-28: the subscription delivers the result of the query
receiveGameState ==
  /\ todayDate # ""
  /\ LET result == getGameState(wordleGameStates, wordles, ClientUser,
                                todayDate)
     IN /\ result # savedGameState
        /\ loadGameState(result)
  /\ UNCHANGED <<todayDate, isLoading, error, serverVars, evalVars, keyVars>>

\* part_000 lines 53-64: up to the await of checkGuess
handleSubmitGuess ==
  IF Len(currentGuess) # 5 \/ todayDate = "" \/ isGameOver
    THEN UNCHANGED vars
    ELSE /\ isLoading' = TRUE
         /\ error' = "null"
         /\ enterHandler(clientCall, ClientUser, todayDate, currentGuess)
         /\ UNCHANGED <<todayDate, guesses, currentGuess, isGameOver,
                        savedGameState, evalVars, keyVars>>

handleKeyPressWhileLoading(key) ==
  IF isGameOver
    THEN UNCHANGED vars
  ELSE IF key = "Enter"
    THEN IF Len(currentGuess) = 5 THEN handleSubmitGuess ELSE UNCHANGED vars
  ELSE IF key = "Backspace"
    THEN /\ currentGuess' = dropLast(currentGuess)
         /\ UNCHANGED <<todayDate, guesses, isGameOver, isLoading, error,
                        savedGameState, serverVars, evalVars, keyVars>>
  ELSE IF Len(currentGuess) < 5
    THEN /\ currentGuess' = Append(currentGuess, upperChar(key))
         /\ UNCHANGED <<todayDate, guesses, isGameOver, isLoading, error,
                        savedGameState, serverVars, evalVars, keyVars>>
  ELSE UNCHANGED vars

\* part_000 lines 83-102
handleKeyPress(key) ==
  IF isGameOver \/ isLoading
    THEN UNCHANGED vars
  ELSE IF key = "Enter"
    THEN IF Len(currentGuess) = 5 THEN handleSubmitGuess ELSE UNCHANGED vars
  ELSE IF key = "Backspace"
    THEN /\ currentGuess' = dropLast(currentGuess)
         /\ UNCHANGED <<todayDate, guesses, isGameOver, isLoading, error,
                        savedGameState, serverVars, evalVars, keyVars>>
  ELSE IF Len(currentGuess) < 5
    THEN /\ currentGuess' = Append(currentGuess, upperChar(key))
         /\ UNCHANGED <<todayDate, guesses, isGameOver, isLoading, error,
                        savedGameState, serverVars, evalVars, keyVars>>
  ELSE UNCHANGED vars

\* the key events of the user: a letter is one that continues a word
keyDown(key) ==
  /\ key \notin {"Enter", "Backspace"} =>
       \/ isGameOver \/ isLoading \/ Len(currentGuess) = 5
       \/ \E w \in ClientWords :
            isPrefix(Append(currentGuess, upperChar(key)), w)
  /\ key = "Enter" => totalSubmits < MaxClientSubmits
  /\ handleKeyPress(key)

handleSubmitGuessSettledClearing(call) ==
  /\ IF call.pc = "returned"
       THEN /\ guesses' = Append(guesses,
                            [word |-> toUpperCase(currentGuess),
                             feedback |-> call.feedback])
            /\ currentGuess' = <<>>
            /\ isGameOver' = call.isGameOver
            /\ UNCHANGED error
       ELSE /\ error' = call.error
            /\ currentGuess' = <<>>
            /\ UNCHANGED <<guesses, isGameOver>>
  /\ isLoading' = FALSE

\* part_000 lines 66-80: after the await of checkGuess
handleSubmitGuessSettled(call) ==
  /\ IF call.pc = "returned"
       THEN /\ guesses' = Append(guesses,
                            [word |-> toUpperCase(currentGuess),
                             feedback |-> call.feedback])
            /\ currentGuess' = <<>>
            /\ isGameOver' = call.isGameOver
            /\ UNCHANGED error
       ELSE /\ error' = call.error
            /\ UNCHANGED <<guesses, currentGuess, isGameOver>>
  /\ isLoading' = FALSE

\* the promise of checkGuess settles and handleSubmitGuess resumes
awaitCheckGuess ==
  /\ isLoading
  /\ finished(clientCall)
  /\ handleSubmitGuessSettled(calls[clientCall])
  /\ UNCHANGED <<todayDate, savedGameState, serverVars, evalVars, keyVars>>

NextClient ==
  \/ setTodayDate
  \/ receiveGameState
  \/ \E key \in Keys : keyDown(key)
  \/ awaitCheckGuess
  \/ checkGuessGetPuzzle(clientCall)
  \/ checkGuessFetch(clientCall)
  \/ checkGuessStorePuzzle(clientCall)
  \/ checkGuessGetGameState(clientCall)
  \/ checkGuessSave(clientCall)

SpecClient == Init /\ [][NextClient]_vars

\* C15: in the page at most one submission is in flight: while isLoading
\* is set no key event starts a call of checkGuess or changes
\* currentGuess, and isLoading is set as long as the call is in flight and
\* is cleared only when the call has settled.
C15_OneSubmissionInFlight ==
  [][ /\ (isLoading /\ isLoading') =>
           /\ currentGuess' = currentGuess
           /\ \A c \in CallIds : calls'[c] # calls[c] => inFlight(c)
      /\ (isLoading /\ ~isLoading') => finished(clientCall)
      /\ (~isLoading /\ isLoading') =>
           /\ ~inFlight(clientCall) /\ inFlight(clientCall)'
           /\ calls'[clientCall].guess = currentGuess
      /\ inFlight(clientCall)' => isLoading' ]_vars

\* a submission is in flight with its guess still in the input row
C15_Witness ==
  /\ isLoading
  /\ calls[clientCall].pc = "save"
  /\ Len(currentGuess) = 5
  /\ Len(guesses) >= 1

\* C16: when the submission of the page fails, the error message is set,
\* isLoading is cleared, and currentGuess, guesses and isGameOver are
\* unchanged: the five letters are still there to be submitted again.
C16_FailureKeepsInput ==
  [][ (isLoading /\ calls[clientCall].pc = "thrown"
         /\ savedGameState' = savedGameState) =>
        /\ ~isLoading'
        /\ error' = calls[clientCall].error /\ error' # "null"
        /\ currentGuess' = currentGuess /\ Len(currentGuess') = 5
        /\ guesses' = guesses
        /\ isGameOver' = isGameOver ]_vars

\* the submission failed and the page shows the error and the input
C16_Witness ==
  /\ ~isLoading
  /\ calls[clientCall].pc = "thrown"
  /\ error = "Failed to fetch puzzle"
  /\ Len(currentGuess) = 5

\* C17: a stored game state delivered to the page replaces guesses and
\* isGameOver by the stored values and leaves currentGuess; a delivery of
\* no state (null) leaves all three.
C17_LoadReplacesGuessesOnly ==
  [][ savedGameState' # savedGameState =>
        /\ savedGameState' = getGameState(wordleGameStates, wordles,
                                          ClientUser, todayDate)
        /\ currentGuess' = currentGuess
        /\ IF savedGameState'.kind = "state"
             THEN /\ guesses' = savedGameState'.guesses
                  /\ isGameOver' = savedGameState'.isGameOver
                  /\ currentUserGameState(wordleGameStates, ClientUser,
                                          todayDate) # <<>>
                     => /\ guesses' = storedGuesses(wordleGameStates,
                                                   ClientUser, todayDate)
                        /\ isGameOver' = storedIsGameOver(wordleGameStates,
                                                   ClientUser, todayDate)
             ELSE /\ savedGameState'.kind = "null"
                  /\ guesses' = guesses
                  /\ isGameOver' = isGameOver ]_vars

\* a stored state with a guess was delivered while letters were typed
C17_Witness ==
  /\ savedGameState.kind = "state"
  /\ savedGameState.guesses # <<>>
  /\ guesses = savedGameState.guesses
  /\ currentGuess # <<>>
  /\ ~isLoading

\* C20: whenever no submission is in flight and the latest stored game
\* state has been delivered, the guesses of the page are the stored guesses
\* of the user and date, at most 6, whichever of the reply of checkGuess
\* and the update of getGameState reaches the page first.
C20_ClientAgreesWithStore ==
  (/\ ~isLoading
   /\ todayDate # ""
   /\ savedGameState = getGameState(wordleGameStates, wordles, ClientUser,
                                    todayDate)
   /\ savedGameState.kind = "state")
  => /\ guesses = savedGameState.guesses
     /\ Len(guesses) <= 6

\* ------------------------------------------------- the keyboard status
foundPresentOrCorrectPresentOnly(history, letter) ==
  \E o \in 1..Len(history) :
    \E j \in 1..Len(history[o].word) :
      /\ history[o].word[j] = upperChar(letter)
      /\ history[o].feedback[j] = "present"

\* part_000 lines 149-162: the inner loops of isLetterAbsent
foundPresentOrCorrect(history, letter) ==
  \E o \in 1..Len(history) :
    \E j \in 1..Len(history[o].word) :
      /\ history[o].word[j] = upperChar(letter)
      /\ \/ history[o].feedback[j] = "present"
         \/ history[o].feedback[j] = "correct"

\* part_000 lines 139-174: true at the first absent occurrence for which
\* the inner loops find nothing
isLetterAbsent(history, letter) ==
  \E g \in 1..Len(history) :
    \E i \in 1..Len(history[g].word) :
      /\ history[g].word[i] = upperChar(letter)
      /\ history[g].feedback[i] = "absent"
      /\ ~foundPresentOrCorrect(history, letter)

\* the guesses the histories are made of, and the letters of the keys
KeyGuesses ==
  { <<"b", "a", "c", "c", "b">>, <<"c", "c", "c", "c", "c">>,
    <<"a", "b", "b", "c", "a">>, <<"c", "a", "b", "a", "b">>,
    <<"g", "c", "g", "c", "g">> }

KeyLetters == {"A", "B", "C", "G", "H", "c"}

\* a row of the grid: what checkGuess returns for the guess
KeyRows ==
  { [word |-> toUpperCase(w),
     feedback |-> calculateFeedback(w, nytSolution("2025-01-01"))] :
    w \in KeyGuesses }

KeyHistories == UNION { [1..n -> KeyRows] : n \in 0..MaxHistory }

InitKeys ==
  /\ InitServer
  /\ InitEvalIdle
  /\ InitPageIdle
  /\ guesses \in KeyHistories
  /\ keyLetter \in KeyLetters
  /\ keyResult = <<>>

\* part_000 lines 176-181: a key of the keyboard is drawn
getKeyColor ==
  /\ keyResult = <<>>
  /\ keyResult' = <<isLetterAbsent(guesses, keyLetter)>>
  /\ UNCHANGED <<serverVars, evalVars, clientVars, keyLetter>>

NextKeys == getKeyColor

SpecKeys == InitKeys /\ [][NextKeys]_vars

\* the marks the occurrences of the letter have in the history
marks(history, letter) ==
  { history[g].feedback[i] :
      <<g, i>> \in { p \in (1..Len(history)) \X (1..5) :
                       history[p[1]].word[p[2]] = upperChar(letter) } }

\* C18: for every guess history and every letter, isLetterAbsent is true
\* exactly when some occurrence of the letter is marked absent and no
\* occurrence of the letter in any guess is marked present or correct.
C18_AbsentIffNeverPresentOrCorrect ==
  keyResult # <<>> =>
    keyResult[1] = (/\ "absent" \in marks(guesses, keyLetter)
                 /\ "present" \notin marks(guesses, keyLetter)
                 /\ "correct" \notin marks(guesses, keyLetter))

\* a letter absent in one guess and correct in another is not shown absent
C18_Witness ==
  /\ keyResult = <<FALSE>>
  /\ Len(guesses) = 2
  /\ "absent" \in marks(<<guesses[1]>>, keyLetter)
  /\ "correct" \in marks(<<guesses[2]>>, keyLetter)
  /\ "present" \notin marks(guesses, keyLetter)

\* ----------------------------------------------------- the letter budget
\* the positions of the guess that hold the letter and are marked correct
\* or present
markedPositions(letter) ==
  {i \in 1..5 : evalG[i] = letter
                 /\ evalFeedback[i] \in {"correct", "present"}}

min(a, b) == IF a <= b THEN a ELSE b

\* the letters of the evaluator's inputs
EvalLetters == {LowerLetters[k] : k \in 1..Len(LowerLetters)}

\* C21: for every guess G, solution S and letter L, the number of positions
\* of G holding L that are marked correct or present is the smaller of the
\* occurrences of L in G and in S; a letter that is not in S is absent at
\* every position.
C21_LetterBudget ==
  evalFeedback # <<>> =>
    \A letter \in EvalLetters :
      /\ Cardinality(markedPositions(letter))
           = min(occurrences(evalG, letter), occurrences(evalS, letter))
      /\ occurrences(evalS, letter) = 0 =>
           \A i \in 1..5 : evalG[i] = letter => evalFeedback[i] = "absent"

\* the budget binds: three L in the guess, two in the solution, one of them
\* correct, one present, one absent; and a letter that is not in S
C21_Witness ==
  /\ evalFeedback # <<>>
  /\ \E letter \in EvalLetters :
       /\ occurrences(evalG, letter) = 3
       /\ occurrences(evalS, letter) = 2
       /\ \E i, j, k \in 1..5 :
            /\ evalG[i] = letter /\ evalFeedback[i] = "correct"
            /\ evalG[j] = letter /\ evalFeedback[j] = "present"
            /\ evalG[k] = letter /\ evalFeedback[k] = "absent"
  /\ \E letter \in EvalLetters :
       /\ occurrences(evalG, letter) > 0
       /\ occurrences(evalS, letter) = 0

\* -------------------------------------------------------------- the win
\* part_000 line 189: the win test of the share text
shareWon(gs) ==
  \E k \in 1..Len(gs) :
    \A i \in 1..Len(gs[k].feedback) : gs[k].feedback[i] = "correct"

\* C22: a successful submit returns isCorrect exactly when all five
\* feedback values are correct; hence the win test on the stored guesses
\* of a game is true exactly when some submit of the game returned
\* isCorrect.
C22_WinTestIffIsCorrect ==
  /\ \A c \in CallIds :
       calls[c].pc \in {"save", "returned"} =>
         /\ Len(calls[c].feedback) = 5
         /\ calls[c].isCorrect
              <=> \A i \in 1..5 : calls[c].feedback[i] = "correct"
  /\ \A identity \in Subjects, date \in Dates :
       won[<<identity, date>>]
         <=> shareWon(storedGuesses(wordleGameStates, identity, date))

\* ------------------------------------------------- the stored game over
\* the solution of the date as the store has it
storedSolution(date) == getPuzzleFromDb(wordles, date)[1].solution

\* the stored guesses whose word is the solution
correctGuesses(row) ==
  {k \in 1..Len(row.guesses) :
     toLowerCase(row.guesses[k].word) = storedSolution(row.date)}

\* C23: in every reachable state every stored game state has isGameOver
\* exactly when one of its guesses is the solution of its date or it has 6
\* guesses, and a correct guess is the last stored guess.
C23_GameOverIffWonOrSix ==
  \A k \in 1..Len(wordleGameStates) :
    LET row == wordleGameStates[k]
    IN /\ getPuzzleFromDb(wordles, row.date) # <<>>
       /\ row.isGameOver
            <=> (correctGuesses(row) # {} \/ Len(row.guesses) = 6)
       /\ correctGuesses(row) \subseteq {Len(row.guesses)}

\* a game state stored as over by a correct guess, and one stored as not
\* over after a wrong guess
C23_Witness ==
  \E k, j \in 1..Len(wordleGameStates) :
    /\ wordleGameStates[k].isGameOver
    /\ correctGuesses(wordleGameStates[k]) = {Len(wordleGameStates[k].guesses)}
    /\ ~wordleGameStates[j].isGameOver
    /\ wordleGameStates[j].guesses # <<>>

====
